---- MODULE Spec2Model ----
(***************************************************************************)
(* Model of Normalizations.ipynb: a Jupyter notebook whose code cells      *)
(* recompute batch, layer, instance, group and weight normalization from   *)
(* their formulas and compare them with the PyTorch modules.               *)
(*                                                                         *)
(* The state is the kernel's namespace (the notebook's global variables),  *)
(* the last cell that ran, how it ended and what it displayed.  There is   *)
(* one action per code cell; a cell is the sequence of its statements and  *)
(* stops at the first one that raises, keeping what the earlier ones       *)
(* assigned, as the kernel does.                                           *)
(*                                                                         *)
(* Numbers.  A float is held in fixed point: the integer k stands for      *)
(* k / Scale.  A squared quantity (a variance, a sum of squares) is held   *)
(* in units of 1 / Scale^2, so that eps = 1e-5 is EpsSq = 10 of them and   *)
(* the square root of a squared quantity is again in units of 1 / Scale.   *)
(* Every division and square root rounds to the nearest unit, so a         *)
(* quotient multiplied back is not the dividend in general.  0/0 is NaN,   *)
(* x/0 is +-Inf, and NaN and Inf propagate as in IEEE arithmetic.          *)
(***************************************************************************)
EXTENDS Integers, Sequences, FiniteSets, TLC

(***************************************************************************)
(* Fixed-point numbers                                                     *)
(***************************************************************************)
Scale == 1000
ScaleSq == Scale * Scale
\* eps = 1e-5 of the formulas, in units of 1 / Scale^2
EpsSq == 10

NaN == 2000000000
PosInf == 2000000001
NegInf == 2000000002

IsFinite(a) == a \notin {NaN, PosInf, NegInf}

Abs(a) == IF a < 0 THEN -a ELSE a

Sign(a) == IF a = PosInf THEN 1
           ELSE IF a = NegInf THEN -1
           ELSE IF a > 0 THEN 1 ELSE IF a < 0 THEN -1 ELSE 0

InfOf(s) == IF s > 0 THEN PosInf ELSE NegInf

\* a / b for integers a and b > 0, rounded to the nearest integer
RDiv(a, b) == (2 * a + b) \div (2 * b)

Neg(a) == IF a = NaN THEN NaN
          ELSE IF a = PosInf THEN NegInf
          ELSE IF a = NegInf THEN PosInf
          ELSE -a

Add(a, b) == IF a = NaN \/ b = NaN THEN NaN
             ELSE IF IsFinite(a) /\ IsFinite(b) THEN a + b
             ELSE IF IsFinite(a) THEN b
             ELSE IF IsFinite(b) THEN a
             ELSE IF a = b THEN a ELSE NaN

Sub(a, b) == Add(a, Neg(b))

\* the product of two numbers in units of 1 / Scale, in the same units
Mul(a, b) == IF a = NaN \/ b = NaN THEN NaN
             ELSE IF IsFinite(a) /\ IsFinite(b) THEN RDiv(a * b, Scale)
             ELSE IF Sign(a) * Sign(b) = 0 THEN NaN
             ELSE InfOf(Sign(a) * Sign(b))

\* the product of two numbers in units of 1 / Scale, in units of 1 / Scale^2
MulSq(a, b) == IF a = NaN \/ b = NaN THEN NaN
               ELSE IF IsFinite(a) /\ IsFinite(b) THEN a * b
               ELSE IF Sign(a) * Sign(b) = 0 THEN NaN
               ELSE InfOf(Sign(a) * Sign(b))

\* the quotient of two numbers in the same units, in units of 1 / Scale
Div(a, b) == IF a = NaN \/ b = NaN THEN NaN
             ELSE IF ~IsFinite(a)
                  THEN IF ~IsFinite(b) THEN NaN
                       ELSE InfOf(Sign(a) * (IF b < 0 THEN -1 ELSE 1))
             ELSE IF ~IsFinite(b) THEN 0
             ELSE IF b = 0 THEN (IF a = 0 THEN NaN ELSE InfOf(Sign(a)))
             ELSE IF b > 0 THEN RDiv(a * Scale, b)
             ELSE RDiv((-a) * Scale, -b)

\* a number divided by a count, in the number's units
DivN(a, n) == IF IsFinite(a) THEN RDiv(a, n) ELSE a

RECURSIVE ISqrtIn(_, _, _)
\* the largest r in lo..hi with r * r <= q
ISqrtIn(q, lo, hi) ==
    IF lo >= hi THEN lo
    ELSE LET mid == (lo + hi + 1) \div 2
         IN  IF mid * mid <= q THEN ISqrtIn(q, mid, hi)
             ELSE ISqrtIn(q, lo, mid - 1)

MaxRoot == 46000

\* the square root of a quantity in units of 1 / Scale^2, in units of
\* 1 / Scale, rounded to the nearest unit
Sqrt(q) == IF q = NaN \/ q = NegInf THEN NaN
           ELSE IF q = PosInf THEN PosInf
           ELSE IF q < 0 THEN NaN
           ELSE LET r == ISqrtIn(q, 0, MaxRoot)
                IN  IF q - r * r > r THEN r + 1 ELSE r

(***************************************************************************)
(* Tensors: a shape and one number per index; an index is a tuple of       *)
(* 0-based positions, one per dimension.                                   *)
(***************************************************************************)
Rank(t) == Len(t.shape)

MaxOf(S) == CHOOSE m \in S : \A k \in S : k <= m

Indices(shape) ==
    IF Len(shape) = 0 THEN {<<>>}
    ELSE LET top == MaxOf({shape[k] : k \in 1..Len(shape)})
         IN  {idx \in [1..Len(shape) -> 0..(top - 1)] :
                \A k \in 1..Len(shape) : idx[k] < shape[k]}

\* a function with its value at every argument computed (once)
Force(f) == IF f = f THEN f ELSE f

Tensor(shape, F(_)) ==
    LET v == [idx \in Indices(shape) |-> F(idx)]
    IN  [shape |-> shape, val |-> Force(v)]

RECURSIVE FlatFrom(_, _, _)
FlatFrom(shape, idx, k) ==
    IF k > Len(shape) THEN 0
    ELSE LET rest == FlatFrom(shape, idx, k + 1)
             RECURSIVE Stride(_)
             Stride(j) == IF j > Len(shape) THEN 1 ELSE shape[j] * Stride(j + 1)
         IN  idx[k] * Stride(k + 1) + rest

\* the row-major offset of an index
Flat(shape, idx) == FlatFrom(shape, idx, 1)

RECURSIVE SumOver(_, _)
\* the sum of F over a finite set, with IEEE propagation of NaN and Inf
SumOver(F, S) ==
    IF S = {} THEN 0
    ELSE LET x == CHOOSE y \in S : TRUE
         IN  Add(F[x], SumOver(F, S \ {x}))

\* a dimension as torch writes it (negative counts from the end), 0-based
WrapDim(d, rank) == IF d < 0 THEN d + rank ELSE d

\* no range check of the dimensions
DimsOkAny(dims, rank) == TRUE

DimsOk(dims, rank) == \A d \in dims : -rank <= d /\ d < rank

WrapDims(dims, rank) == {WrapDim(d, rank) : d \in dims}

\* the indices reduced together with idx: those that agree with it outside dims
Group(shape, dims, idx) ==
    {j \in Indices(shape) :
        \A k \in 1..Len(shape) : (k - 1) \notin dims => j[k] = idx[k]}

KeepShape(shape, dims) ==
    [k \in 1..Len(shape) |-> IF (k - 1) \in dims THEN 1 ELSE shape[k]]

GroupSize(shape, dims) ==
    LET RECURSIVE Prod(_)
        Prod(k) == IF k > Len(shape) THEN 1
                   ELSE (IF (k - 1) \in dims THEN shape[k] ELSE 1) * Prod(k + 1)
    IN  Prod(1)

\* torch.mean(t, dim=dims, keepdim=True)
TorchMean(t, dims) ==
    LET ds == WrapDims(dims, Rank(t))
        n == GroupSize(t.shape, ds)
    IN  Tensor(KeepShape(t.shape, ds),
               LAMBDA idx : DivN(SumOver(t.val, Group(t.shape, ds, idx)), n))

\* torch.var with Bessel's correction whatever `unbiased` says (torch's default)
TorchVarBessel(t, dims, unbiased) ==
    LET ds == WrapDims(dims, Rank(t))
        n == GroupSize(t.shape, ds)
        m == TorchMean(t, dims)
        sq == [j \in Indices(t.shape) |->
                 LET d == Sub(t.val[j],
                              m.val[[k \in 1..Rank(t) |->
                                       IF (k - 1) \in ds THEN 0 ELSE j[k]]])
                 IN  MulSq(d, d)]
    IN  Tensor(KeepShape(t.shape, ds),
               LAMBDA idx : DivN(SumOver(sq, Group(t.shape, ds, idx)), n - 1))

\* torch.var(t, dim=dims, keepdim=True, unbiased=unbiased), in units of 1/Scale^2
TorchVar(t, dims, unbiased) ==
    LET ds == WrapDims(dims, Rank(t))
        n == GroupSize(t.shape, ds)
        m == TorchMean(t, dims)
        sq == [j \in Indices(t.shape) |->
                 LET d == Sub(t.val[j],
                              m.val[[k \in 1..Rank(t) |->
                                       IF (k - 1) \in ds THEN 0 ELSE j[k]]])
                 IN  MulSq(d, d)]
    IN  Tensor(KeepShape(t.shape, ds),
               LAMBDA idx : DivN(SumOver(sq, Group(t.shape, ds, idx)),
                                 IF unbiased THEN n - 1 ELSE n))

\* the sum of squares along one dimension: the norm without its square root
TorchNormSquared(t, dim) ==
    LET ds == {WrapDim(dim, Rank(t))}
        sq == [j \in Indices(t.shape) |-> MulSq(t.val[j], t.val[j])]
    IN  Tensor(KeepShape(t.shape, ds),
               LAMBDA idx : SumOver(sq, Group(t.shape, ds, idx)))

\* torch.norm(t, dim=dim, keepdim=True): the L2 norm along one dimension
TorchNorm(t, dim) ==
    LET ds == {WrapDim(dim, Rank(t))}
        sq == [j \in Indices(t.shape) |-> MulSq(t.val[j], t.val[j])]
    IN  Tensor(KeepShape(t.shape, ds),
               LAMBDA idx : Sqrt(SumOver(sq, Group(t.shape, ds, idx))))

\* the shape two shapes broadcast to (aligned at the last dimension)
DimAt(shape, k, rank) ==
    LET off == rank - Len(shape) IN IF k <= off THEN 1 ELSE shape[k - off]

Broadcastable(sa, sb) ==
    LET r == IF Len(sa) > Len(sb) THEN Len(sa) ELSE Len(sb)
    IN  \A k \in 1..r :
            \/ DimAt(sa, k, r) = DimAt(sb, k, r)
            \/ DimAt(sa, k, r) = 1
            \/ DimAt(sb, k, r) = 1

BroadcastShape(sa, sb) ==
    LET r == IF Len(sa) > Len(sb) THEN Len(sa) ELSE Len(sb)
    IN  [k \in 1..r |-> IF DimAt(sa, k, r) = 1 THEN DimAt(sb, k, r)
                        ELSE DimAt(sa, k, r)]

\* the index of the operand's element that a broadcast index reads
Project(shape, idx) ==
    LET off == Len(idx) - Len(shape)
    IN  [k \in 1..Len(shape) |-> IF shape[k] = 1 THEN 0 ELSE idx[k + off]]

\* an elementwise binary operation with broadcasting
Elementwise(Op(_, _), a, b) ==
    Tensor(BroadcastShape(a.shape, b.shape),
           LAMBDA idx : Op(a.val[Project(a.shape, idx)], b.val[Project(b.shape, idx)]))

\* an elementwise unary operation
Map(Op(_), a) == [shape |-> a.shape, val |-> [idx \in DOMAIN a.val |-> Op(a.val[idx])]]

AddEps(q) == Add(q, EpsSq)

Swap(s, i, j) == [k \in 1..Len(s) |-> IF k = i THEN s[j] ELSE IF k = j THEN s[i] ELSE s[k]]

\* t.transpose(d1, d2)
Transpose(t, d1, d2) ==
    LET i == WrapDim(d1, Rank(t)) + 1
        j == WrapDim(d2, Rank(t)) + 1
    IN  Tensor(Swap(t.shape, i, j), LAMBDA idx : t.val[Swap(idx, i, j)])

\* a @ b for a of shape (..., k) and b of shape (k, m)
MatMulOk(a, b) == Rank(a) >= 1 /\ Rank(b) = 2 /\ a.shape[Rank(a)] = b.shape[1]

MatMul(a, b) ==
    LET r == Rank(a)
        k == b.shape[1]
    IN  Tensor([d \in 1..r |-> IF d = r THEN b.shape[2] ELSE a.shape[d]],
               LAMBDA idx :
                 LET prod == [c \in 0..(k - 1) |->
                                Mul(a.val[[d \in 1..r |-> IF d = r THEN c ELSE idx[d]]],
                                    b.val[<<c, idx[r]>>])]
                 IN  SumOver(prod, 0..(k - 1)))

\* torch.allclose(a, b): |a - b| <= atol + rtol * |b| everywhere; a NaN is
\* close to nothing.  rtol = 1e-5 is about a hundred roundings of float32
\* (2^-24 each); here a rounding is one unit, and the tolerance is CloseTol units.
CloseTol == 100

Close(x, y) ==
    IF x = NaN \/ y = NaN THEN FALSE
    ELSE IF ~IsFinite(x) \/ ~IsFinite(y) THEN x = y
    ELSE Abs(x - y) <= CloseTol

AllClose(a, b) ==
    LET s == BroadcastShape(a.shape, b.shape)
    IN  \A idx \in Indices(s) :
            Close(a.val[Project(a.shape, idx)], b.val[Project(b.shape, idx)])

\* torch.split(t, size, dim): consecutive chunks of `size` entries along dim
\* (the last one shorter when size does not divide the dimension)
Split(t, size, dim) ==
    LET d == WrapDim(dim, Rank(t)) + 1
        len == t.shape[d]
        n == (len + size - 1) \div size
    IN  [c \in 1..n |->
           LET lo == (c - 1) * size
               hi == IF c * size < len THEN c * size ELSE len
           IN  Tensor([k \in 1..Rank(t) |-> IF k = d THEN hi - lo ELSE t.shape[k]],
                      LAMBDA idx : t.val[[idx EXCEPT ![d] = idx[d] + lo]])]

RECURSIVE CatLen(_, _, _)
CatLen(ts, d, n) == IF n = 0 THEN 0 ELSE CatLen(ts, d, n - 1) + ts[n].shape[d]

\* torch.cat(ts, dim) for a non-empty sequence of tensors
Cat(ts, dim) ==
    LET d == WrapDim(dim, Rank(ts[1])) + 1
        \* the chunk that holds position p of the result, and the offset in it
        ChunkOf(p) == CHOOSE c \in 1..Len(ts) :
                         CatLen(ts, d, c - 1) <= p /\ p < CatLen(ts, d, c)
    IN  Tensor([k \in 1..Rank(ts[1]) |->
                  IF k = d THEN CatLen(ts, d, Len(ts)) ELSE ts[1].shape[k]],
               LAMBDA idx :
                 LET c == ChunkOf(idx[d])
                 IN  ts[c].val[[idx EXCEPT ![d] = idx[d] - CatLen(ts, d, c - 1)]])

(***************************************************************************)
(* Random draws.  torch.randn and the initialisation of nn.Linear read     *)
(* torch's default generator, which starts from a seed taken from the      *)
(* environment, and advance it.  They can return any floats; the model     *)
(* draws from a bounded family of tensors: in generator state s the        *)
(* element at row-major offset i is 0 when s is odd and i < ZeroPrefix,    *)
(* and otherwise a value of the pool picked by i and s (s \div 2 = 0 gives *)
(* a constant tensor).                                                     *)
(***************************************************************************)
MaxSeed == 11
ZeroPrefix == 4

Seeds == 0..MaxSeed

\* the generator's state after one draw
Advance(s) == (s + 1) % (MaxSeed + 1)

\* values torch.randn may return (standard normal samples)
RandnPool == <<-1500, -500, 0, 250, 1000, 2000>>

\* values nn.Linear may start a weight at: uniform in (-1/sqrt(in), 1/sqrt(in))
LinearPool == <<-450, -200, 0, 100, 300, 400>>

Draw(pool, s, i) ==
    IF s % 2 = 1 /\ i < ZeroPrefix THEN 0
    ELSE pool[(((s \div 2) * (i + (i \div 7))) % Len(pool)) + 1]

\* torch.randn(*shape)
Randn(shape, seed) == Tensor(shape, LAMBDA idx : Draw(RandnPool, seed, Flat(shape, idx)))

(***************************************************************************)
(* The PyTorch modules the notebook calls, by the formulas the notebook    *)
(* quotes for them.  A module in training mode normalizes with the         *)
(* statistics of its input; the running statistics BatchNorm2d also keeps  *)
(* are read by no cell and are left out.                                   *)
(***************************************************************************)

\* (x - E[x]) / sqrt(Var[x] + eps) with E and the biased Var taken over the
\* elements that have the same Key as x
NormalizeWithin(x, Key(_)) ==
    LET all == Indices(x.shape)
        stat == Force([k \in {Key(i) : i \in all} |->
                  LET G == {j \in all : Key(j) = k}
                      m == DivN(SumOver(x.val, G), Cardinality(G))
                      sq == [j \in G |-> MulSq(Sub(x.val[j], m), Sub(x.val[j], m))]
                      v == DivN(SumOver(sq, G), Cardinality(G))
                  IN  <<m, Sqrt(Add(v, EpsSq))>>])
    IN  Tensor(x.shape,
               LAMBDA idx : Div(Sub(x.val[idx], stat[Key(idx)][1]), stat[Key(idx)][2]))

\* nn.BatchNorm2d(C, affine=False)(x) for x of shape (N, C, H, W): per channel
BatchNorm2d(x) == NormalizeWithin(x, LAMBDA i : i[2])

\* nn.LayerNorm(C, elementwise_affine=False)(x) for x of shape (N, L, C): per
\* sample and position
LayerNorm(x) == NormalizeWithin(x, LAMBDA i : <<i[1], i[2]>>)

\* nn.InstanceNorm1d(C)(x) for x of shape (N, C, L): per sample and channel
InstanceNorm1d(x) == NormalizeWithin(x, LAMBDA i : <<i[1], i[2]>>)

\* nn.GroupNorm(G, C, affine=False)(x) for x of shape (N, C, L): the channels
\* are cut into G consecutive groups of C / G channels; per sample and group
GroupNorm(G, x) ==
    LET per == x.shape[2] \div G
    IN  NormalizeWithin(x, LAMBDA i : <<i[1], i[2] \div per>>)

\* w = g * v / ||v||, the norm taken per output unit (dim=0): torch computes
\* v * (g / ||v||)
WeightNormWeight(g, v) ==
    Elementwise(Mul, v, Elementwise(Div, g, TorchNorm(v, 1)))

\* nn.Linear(in_features, out_features, bias=False): weight of shape (out, in)
Linear(in_features, out_features, seed) ==
    [in_features |-> in_features,
     out_features |-> out_features,
     weight |-> Tensor(<<out_features, in_features>>,
                       LAMBDA idx : Draw(LinearPool, seed,
                                         Flat(<<out_features, in_features>>, idx)))]

\* nn.utils.weight_norm(module): weight_g is the per-row norm of the weight,
\* weight_v the weight, and the weight is rebuilt from them
WeightNorm(module) ==
    LET g == TorchNorm(module.weight, 1)
        v == module.weight
    IN  [in_features |-> module.in_features,
         out_features |-> module.out_features,
         weight_g |-> g,
         weight_v |-> v,
         weight |-> WeightNormWeight(g, v)]

LinearOk(module, x) == Rank(x) >= 1 /\ x.shape[Rank(x)] = module.in_features

\* module(x) for a weight-normalized bias-free linear module: the weight is
\* rebuilt from weight_g and weight_v, then x @ weight.T
LinearForward(module, x) ==
    MatMul(x, Transpose(WeightNormWeight(module.weight_g, module.weight_v), 0, 1))

(***************************************************************************)
(* The kernel.  ns is the namespace: a function from the names defined so  *)
(* far to their values; rng is the state of torch's default generator;     *)
(* last is the cell that ran last, err how it ended, out what it showed    *)
(* last (its final expression or print) and runs the number of cells run   *)
(* so far.  A statement maps a namespace to a result: the namespace after  *)
(* it, how it ended and what it showed.                                    *)
(***************************************************************************)
VARIABLES ns, rng, last, runs, err, out

vars == <<ns, rng, last, runs, err, out>>

NoOut == [kind |-> "none"]

Ok(n) == [ns |-> n, err |-> "ok", out |-> NoOut]

Raise(n, e) == [ns |-> n, err |-> e, out |-> NoOut]

Show(n, kind, v) == [ns |-> n, err |-> "ok", out |-> [kind |-> kind, v |-> v]]

Defined(n, names) == names \subseteq DOMAIN n

Set(n, x, v) == Force([y \in DOMAIN n \cup {x} |-> IF y = x THEN v ELSE n[y]])

Assign(n, x, v) == Ok(Set(n, x, v))

\* the next statement runs only if the one before did not raise
Then(r, S(_)) == IF r.err # "ok" THEN r ELSE S(r.ns)

PyModule == [kind |-> "module"]

\* the formula with the square root left out: (t - mean) / (var + 1e-5)
FormulaNoSqrt(t, mean, var) ==
    Elementwise(Div, Elementwise(Sub, t, mean), Map(AddEps, var))

\* (t - mean) / torch.sqrt(var + 1e-5), the formula of every hand-written cell
Formula(t, mean, var) ==
    Elementwise(Div, Elementwise(Sub, t, mean), Map(Sqrt, Map(AddEps, var)))

(***************************************************************************)
(* Cell 580dd904: imports, data, nn.BatchNorm2d                            *)
(***************************************************************************)
Run_580dd904(n, seed) ==
    LET n1 == Set(Set(n, "torch", PyModule), "nn", PyModule)
        n2 == Set(n1, "num_channels", 3)
        n3 == Set(n2, "data", Randn(<<2, n2.num_channels, 4, 4>>, seed))
        n4 == Set(n3, "torch_BN", [kind |-> "BatchNorm2d",
                                   num_features |-> n3.num_channels,
                                   affine |-> FALSE])
    IN  Assign(n4, "output_torch_BN", BatchNorm2d(n4.data))

(***************************************************************************)
(* Cell dcda4080: batch normalization from the formula                     *)
(***************************************************************************)
\* the reduction without the batch axis
BNDimsNoBatch == {2, 3}

BNDims == {0, 2, 3}

\* the mean taken of input_data, the other cells' tensor
ChannelMeanOfInput(n) ==
    IF ~Defined(n, {"torch", "input_data"}) THEN Raise(n, "NameError")
    ELSE IF ~DimsOk(BNDims, Rank(n.input_data)) THEN Raise(n, "IndexError")
    ELSE Assign(n, "channel_mean", TorchMean(n.input_data, BNDims))

ChannelMean(n) ==
    IF ~Defined(n, {"torch", "data"}) THEN Raise(n, "NameError")
    ELSE IF ~DimsOk(BNDims, Rank(n.data)) THEN Raise(n, "IndexError")
    ELSE Assign(n, "channel_mean", TorchMean(n.data, BNDims))

ChannelVar(n) ==
    IF ~Defined(n, {"torch", "data"}) THEN Raise(n, "NameError")
    ELSE IF ~DimsOk(BNDims, Rank(n.data)) THEN Raise(n, "IndexError")
    ELSE Assign(n, "channel_var", TorchVar(n.data, BNDims, FALSE))

\* the formula applied in place: data = (data - mean) / sqrt(var + eps)
OurBNInPlace(n) ==
    LET n1 == Set(n, "data", Formula(n.data, n.channel_mean, n.channel_var))
    IN  Assign(n1, "our_BN", n1.data)

OurBN(n) == Assign(n, "our_BN", Formula(n.data, n.channel_mean, n.channel_var))

CompareBN(n) ==
    IF ~Defined(n, {"output_torch_BN"}) THEN Raise(n, "NameError")
    ELSE IF ~Broadcastable(n.our_BN.shape, n.output_torch_BN.shape)
         THEN Raise(n, "RuntimeError")
    ELSE Show(n, "bool", AllClose(n.our_BN, n.output_torch_BN))

Run_dcda4080(n) == Then(Then(Then(ChannelMean(n), ChannelVar), OurBN), CompareBN)

(***************************************************************************)
(* Cell 5580a32d: input_data, nn.LayerNorm and layer normalization from    *)
(* the formula                                                             *)
(***************************************************************************)
InputData(n, seed) ==
    LET n1 == Set(Set(Set(n, "batch_size", 2), "time_steps", 3), "embedding_dim", 4)
    IN  IF ~Defined(n1, {"torch"}) THEN Raise(n1, "NameError")
        ELSE Assign(n1, "input_data",
                    Randn(<<n1.batch_size, n1.time_steps, n1.embedding_dim>>, seed))

TorchLayerNorm(n) ==
    IF ~Defined(n, {"nn"}) THEN Raise(n, "NameError")
    ELSE LET n1 == Set(n, "pytorch_api_layerNorm",
                       [kind |-> "LayerNorm",
                        normalized_shape |-> <<n.embedding_dim>>,
                        elementwise_affine |-> FALSE])
         IN  Assign(n1, "pytorch_api_layerNorm_output", LayerNorm(n1.input_data))

OurLayerNorm(n) ==
    LET n1 == Set(n, "input_mean", TorchMean(n.input_data, {-1}))
        n2 == Set(n1, "input_var", TorchVar(n1.input_data, {-1}, FALSE))
    IN  Assign(n2, "layerNorm_output",
               Formula(n2.input_data, n2.input_mean, n2.input_var))

CompareLayerNorm(n) ==
    Show(n, "bool", AllClose(n.layerNorm_output, n.pytorch_api_layerNorm_output))

Run_5580a32d(n, seed) ==
    Then(Then(Then(InputData(n, seed), TorchLayerNorm), OurLayerNorm), CompareLayerNorm)

(***************************************************************************)
(* Cell f0321f82: nn.LayerNorm on an image batch of shape (20, 5, 10, 10). *)
(* The cell shows output.shape and no other cell reads its variables: the  *)
(* model holds the shapes of input and output, not their 10,000 elements.  *)
(***************************************************************************)
Run_f0321f82(n) ==
    LET n1 == Set(Set(Set(Set(n, "N", 20), "C", 5), "H", 10), "W", 10)
    IN  IF ~Defined(n1, {"torch", "nn"}) THEN Raise(n1, "NameError")
        ELSE LET shape == <<n1.N, n1.C, n1.H, n1.W>>
                 n2 == Set(n1, "input", [shape |-> shape])
                 n3 == Set(n2, "layer_norm",
                           [kind |-> "LayerNorm",
                            normalized_shape |-> <<n2.C, n2.H, n2.W>>,
                            elementwise_affine |-> TRUE])
                 n4 == Set(n3, "output", [shape |-> n3.input.shape])
             IN  Show(n4, "shape", n4.output.shape)

(***************************************************************************)
(* Cell ca30fc10: nn.InstanceNorm1d and instance normalization from the    *)
(* formula                                                                 *)
(***************************************************************************)
TorchInstanceNorm(n) ==
    IF ~Defined(n, {"nn", "embedding_dim"}) THEN Raise(n, "NameError")
    ELSE LET n1 == Set(n, "pytorch_instance_normalization",
                       [kind |-> "InstanceNorm1d", num_features |-> n.embedding_dim])
         IN  IF ~Defined(n1, {"input_data"}) THEN Raise(n1, "NameError")
             ELSE Assign(n1, "pytorch_instance_normalization_output",
                         Transpose(InstanceNorm1d(Transpose(n1.input_data, -1, -2)),
                                   -1, -2))

OurInstanceNorm(n) ==
    IF ~Defined(n, {"torch"}) THEN Raise(n, "NameError")
    ELSE LET n1 == Set(n, "input_mean", TorchMean(n.input_data, {1}))
             n2 == Set(n1, "input_var", TorchVar(n1.input_data, {1}, FALSE))
         IN  Assign(n2, "instance_normalization_math",
                    Formula(n2.input_data, n2.input_mean, n2.input_var))

CompareInstanceNorm(n) ==
    Show(n, "bool", AllClose(n.pytorch_instance_normalization_output,
                             n.instance_normalization_math))

Run_ca30fc10(n) ==
    Then(Then(TorchInstanceNorm(n), OurInstanceNorm), CompareInstanceNorm)

(***************************************************************************)
(* Cell 319a1e59: nn.GroupNorm and group normalization from the formula.   *)
(* G is the cell's literal num_groups (2 in the notebook).                 *)
(***************************************************************************)
TorchGroupNorm(n, G) ==
    LET n1 == Set(n, "num_groups", G)
    IN  IF ~Defined(n1, {"nn", "embedding_dim"}) THEN Raise(n1, "NameError")
        ELSE IF n1.embedding_dim % n1.num_groups # 0 THEN Raise(n1, "ValueError")
        ELSE LET n2 == Set(n1, "pytorch_group_norm",
                           [kind |-> "GroupNorm",
                            num_groups |-> n1.num_groups,
                            num_channels |-> n1.embedding_dim,
                            affine |-> FALSE])
             IN  IF ~Defined(n2, {"input_data"}) THEN Raise(n2, "NameError")
                 ELSE Assign(n2, "pytorch_group_norm_output",
                             Transpose(GroupNorm(n2.pytorch_group_norm.num_groups,
                                                 Transpose(n2.input_data, -1, -2)),
                                       -1, -2))

SplitGroups(n) ==
    IF ~Defined(n, {"torch"}) THEN Raise(n, "NameError")
    ELSE Assign(Set(n, "grouped_input", Split(n.input_data, n.num_groups, -1)),
                "output_list", <<>>)

RECURSIVE GroupLoop(_, _)
\* the iterations of the for loop from the k-th group on
GroupLoop(n, k) ==
    IF k > Len(n.grouped_input) THEN n
    ELSE LET n1 == Set(n, "group", n.grouped_input[k])
             n2 == Set(n1, "input_mean", TorchMean(n1.group, {1, 2}))
             n3 == Set(n2, "input_var", TorchVar(n2.group, {1, 2}, FALSE))
             n4 == Set(n3, "group_norm_output",
                       Formula(n3.group, n3.input_mean, n3.input_var))
             n5 == Set(n4, "output_list", Append(n4.output_list, n4.group_norm_output))
         IN  GroupLoop(n5, k + 1)

OurGroupNorm(n) ==
    LET n1 == GroupLoop(n, 1)
    IN  Assign(n1, "group_norm_output", Cat(n1.output_list, -1))

CompareGroupNorm(n) ==
    Show(n, "bool", AllClose(n.pytorch_group_norm_output, n.group_norm_output))

Run_319a1e59(n, G) ==
    Then(Then(Then(TorchGroupNorm(n, G), SplitGroups), OurGroupNorm), CompareGroupNorm)

(***************************************************************************)
(* Cell 182d9172: a weight-normalized linear module, and its output from   *)
(* magnitude * direction.  linear and pytorch_wn_linear name one module;   *)
(* no cell changes a module after wrapping it, so each name holds a copy.  *)
(***************************************************************************)
WrapLinear3(n, seed) ==
    IF ~Defined(n, {"nn", "embedding_dim"}) THEN Raise(n, "NameError")
    ELSE LET m == WeightNorm(Linear(n.embedding_dim, 3, seed))
             n1 == Set(Set(n, "linear", m), "pytorch_wn_linear", m)
         IN  IF ~Defined(n1, {"input_data"}) THEN Raise(n1, "NameError")
             ELSE IF ~LinearOk(n1.pytorch_wn_linear, n1.input_data)
                  THEN Raise(n1, "RuntimeError")
             ELSE Assign(n1, "pytorch_wn_linear_output",
                         LinearForward(n1.pytorch_wn_linear, n1.input_data))

\* the direction with the norms taken down the columns (dim=0)
DirectionDim0(n) ==
    IF ~Defined(n, {"torch"}) THEN Raise(n, "NameError")
    ELSE LET n1 == Set(n, "direction",
                       Elementwise(Div, n.linear.weight, TorchNorm(n.linear.weight, 0)))
             n2 == Set(n1, "magnitude", n1.linear.weight_g)
         IN  Assign(n2, "wn_weight", Elementwise(Mul, n2.magnitude, n2.direction))

Direction(n) ==
    IF ~Defined(n, {"torch"}) THEN Raise(n, "NameError")
    ELSE LET n1 == Set(n, "direction",
                       Elementwise(Div, n.linear.weight, TorchNorm(n.linear.weight, 1)))
             n2 == Set(n1, "magnitude", n1.linear.weight_g)
         IN  Assign(n2, "wn_weight", Elementwise(Mul, n2.magnitude, n2.direction))

WnLinearOutput(n) ==
    LET n1 == Set(n, "wn_linear_output",
                  MatMul(n.input_data, Transpose(n.wn_weight, -1, -2)))
    IN  Show(n1, "bool", AllClose(n1.pytorch_wn_linear_output, n1.wn_linear_output))

Run_182d9172(n, seed) == Then(Then(WrapLinear3(n, seed), Direction), WnLinearOutput)

(***************************************************************************)
(* Cell 2edd684e: a second data and a second weight-normalized module      *)
(***************************************************************************)
Run_2edd684e(n, dseed, wseed) ==
    LET n1 == Set(Set(Set(n, "batch_size", 2), "feat_dim", 3), "hid_dim", 4)
    IN  IF ~Defined(n1, {"torch"}) THEN Raise(n1, "NameError")
        ELSE LET n2 == Set(n1, "data", Randn(<<n1.batch_size, n1.feat_dim>>, dseed))
                 m == WeightNorm(Linear(n2.feat_dim, n2.hid_dim, wseed))
                 n3 == Set(Set(n2, "linear", m), "wn_linear", m)
             IN  Show(n3, "tensor", n3.linear.weight)

(***************************************************************************)
(* Cell 40ab8100: weight_magnitude and weight_direction                    *)
(***************************************************************************)
\* the sum of the absolute values of each row (the L1 norm), shape (rows,)
RowAbsSums(w) ==
    Tensor(<<w.shape[1]>>,
           LAMBDA idx :
             SumOver([c \in 0..(w.shape[2] - 1) |-> Abs(w.val[<<idx[1], c>>])],
                     0..(w.shape[2] - 1)))

\* torch.tensor([w[i,:].norm() for i in ...]): the L2 norm of each row, shape (rows,)
RowNorms(w) ==
    Tensor(<<w.shape[1]>>,
           LAMBDA idx :
             LET sq == [c \in 0..(w.shape[2] - 1) |->
                          MulSq(w.val[<<idx[1], c>>], w.val[<<idx[1], c>>])]
             IN  Sqrt(SumOver(sq, 0..(w.shape[2] - 1))))

\* t.reshape(rows, 1) and t.unsqueeze(-1) of a vector
AsColumn(t) == Tensor(<<t.shape[1], 1>>, LAMBDA idx : t.val[<<idx[1]>>])

\* sum(dim=-1) of the elementwise square, in units of 1 / Scale^2
SquaredRowSums(t) ==
    Tensor(<<t.shape[1]>>,
           LAMBDA idx :
             LET sq == [c \in 0..(t.shape[2] - 1) |->
                          MulSq(t.val[<<idx[1], c>>], t.val[<<idx[1], c>>])]
             IN  SumOver(sq, 0..(t.shape[2] - 1)))

Run_40ab8100(n) ==
    IF ~Defined(n, {"torch", "linear"}) THEN Raise(n, "NameError")
    ELSE LET n1 == Set(n, "weight_magnitude", RowNorms(n.linear.weight))
             n2 == Set(n1, "weight_magnitude", AsColumn(n1.weight_magnitude))
             n3 == Set(n2, "weight_direction",
                       Elementwise(Div, n2.linear.weight, n2.weight_magnitude))
         IN  Show(n3, "tensor", SquaredRowSums(n3.weight_direction))

(***************************************************************************)
(* Cells d7f33eef, f1739bf0, 022fbba5, 5305a21f, fbb7b827, 91b2f303,       *)
(* 1c4c0066, d12a5987: expressions shown                                   *)
(***************************************************************************)
Run_d7f33eef(n) ==
    IF ~Defined(n, {"weight_direction", "weight_magnitude"}) THEN Raise(n, "NameError")
    ELSE Show(n, "tensor", Elementwise(Mul, n.weight_direction, n.weight_magnitude))

Run_f1739bf0(n) ==
    IF ~Defined(n, {"linear", "data"}) THEN Raise(n, "NameError")
    ELSE IF ~LinearOk(n.linear, n.data) THEN Raise(n, "RuntimeError")
    ELSE Show(n, "tensor", LinearForward(n.linear, n.data))

Run_022fbba5(n) ==
    IF ~Defined(n, {"wn_linear", "data"}) THEN Raise(n, "NameError")
    ELSE IF ~LinearOk(n.wn_linear, n.data) THEN Raise(n, "RuntimeError")
    ELSE Show(n, "tensor", LinearForward(n.wn_linear, n.data))

Run_5305a21f(n) ==
    IF ~Defined(n, {"data", "weight_direction", "weight_magnitude"})
    THEN Raise(n, "NameError")
    ELSE LET w == Transpose(Elementwise(Mul, n.weight_direction, n.weight_magnitude), 0, 1)
         IN  IF ~MatMulOk(n.data, w) THEN Raise(n, "RuntimeError")
             ELSE Show(n, "tensor", MatMul(n.data, w))

Run_fbb7b827(n) ==
    IF ~Defined(n, {"wn_linear"}) THEN Raise(n, "NameError")
    ELSE LET n1 == Set(Set(n, "n", "weight_v"), "p", n.wn_linear.weight_v)
         IN  Show(n1, "params", <<n1.wn_linear.weight_g, n1.wn_linear.weight_v>>)

Run_91b2f303(n) ==
    IF ~Defined(n, {"torch", "wn_linear"}) THEN Raise(n, "NameError")
    ELSE LET n1 == Set(n, "weight_v_norm", AsColumn(RowNorms(n.wn_linear.weight_v)))
         IN  Show(n1, "tensor",
                  Elementwise(Div,
                              Elementwise(Mul, n1.wn_linear.weight_g, n1.wn_linear.weight_v),
                              n1.weight_v_norm))

Run_1c4c0066(n) ==
    IF ~Defined(n, {"weight_v_norm"}) THEN Raise(n, "NameError")
    ELSE Show(n, "tensor", n.weight_v_norm)

Run_d12a5987(n) ==
    IF ~Defined(n, {"wn_linear"}) THEN Raise(n, "NameError")
    ELSE Show(n, "tensor", n.wn_linear.weight_g)

(***************************************************************************)
(* The notebook's actions: one per code cell.                              *)
(***************************************************************************)
Init ==
    /\ ns = <<>>
    /\ rng \in Seeds
    /\ last = "none"
    /\ runs = 0
    /\ err = "ok"
    /\ out = NoOut

\* cell `id` runs and ends as r, after `draws` draws from the generator
Finish(id, r, draws) ==
    /\ ns' = r.ns
    /\ err' = r.err
    /\ out' = r.out
    /\ last' = id
    /\ runs' = runs + 1
    /\ rng' = IF draws = 0 THEN rng
              ELSE IF draws = 1 THEN Advance(rng)
              ELSE Advance(Advance(rng))

Cell_580dd904 == Finish("580dd904", Run_580dd904(ns, rng), 1)

Cell_dcda4080 == Finish("dcda4080", Run_dcda4080(ns), 0)

\* a cell that raises before its draw leaves the generator as it was
Cell_5580a32d ==
    LET r == Run_5580a32d(ns, rng)
    IN  Finish("5580a32d", r, IF r.err = "ok" THEN 1 ELSE 0)

Cell_f0321f82 ==
    LET r == Run_f0321f82(ns)
    IN  Finish("f0321f82", r, IF r.err = "ok" THEN 1 ELSE 0)

Cell_ca30fc10 == Finish("ca30fc10", Run_ca30fc10(ns), 0)

Cell_319a1e59 == Finish("319a1e59", Run_319a1e59(ns, 2), 0)

Cell_182d9172 ==
    LET r == Run_182d9172(ns, rng)
    IN  Finish("182d9172", r, IF Defined(ns, {"nn", "embedding_dim"}) THEN 1 ELSE 0)

Cell_2edd684e ==
    LET r == Run_2edd684e(ns, rng, Advance(rng))
    IN  Finish("2edd684e", r, IF r.err = "ok" THEN 2 ELSE 0)

Cell_40ab8100 == Finish("40ab8100", Run_40ab8100(ns), 0)

Cell_d7f33eef == Finish("d7f33eef", Run_d7f33eef(ns), 0)

Cell_f1739bf0 == Finish("f1739bf0", Run_f1739bf0(ns), 0)

Cell_022fbba5 == Finish("022fbba5", Run_022fbba5(ns), 0)

Cell_5305a21f == Finish("5305a21f", Run_5305a21f(ns), 0)

Cell_fbb7b827 == Finish("fbb7b827", Run_fbb7b827(ns), 0)

Cell_91b2f303 == Finish("91b2f303", Run_91b2f303(ns), 0)

Cell_1c4c0066 == Finish("1c4c0066", Run_1c4c0066(ns), 0)

Cell_d12a5987 == Finish("d12a5987", Run_d12a5987(ns), 0)

(***************************************************************************)
(* Spec: the notebook as Jupyter runs it.  Any cell may be run at any      *)
(* time, any number of times; the model follows a kernel for MaxRuns runs. *)
(***************************************************************************)
MaxRuns == 3

Next ==
    /\ runs < MaxRuns
    /\ \/ Cell_580dd904
       \/ Cell_dcda4080
       \/ Cell_5580a32d
       \/ Cell_f0321f82
       \/ Cell_ca30fc10
       \/ Cell_319a1e59
       \/ Cell_182d9172
       \/ Cell_2edd684e
       \/ Cell_40ab8100
       \/ Cell_d7f33eef
       \/ Cell_f1739bf0
       \/ Cell_022fbba5
       \/ Cell_5305a21f
       \/ Cell_fbb7b827
       \/ Cell_91b2f303
       \/ Cell_1c4c0066
       \/ Cell_d12a5987

Spec == Init /\ [][Next]_vars

(***************************************************************************)
(* SpecRunAll: "Run All" in a fresh kernel.  The cells run once each, in   *)
(* the order of the notebook.                                              *)
(***************************************************************************)
NextRunAll ==
    \/ last = "none" /\ Cell_580dd904
    \/ last = "580dd904" /\ Cell_dcda4080
    \/ last = "dcda4080" /\ Cell_5580a32d
    \/ last = "5580a32d" /\ Cell_f0321f82
    \/ last = "f0321f82" /\ Cell_ca30fc10
    \/ last = "ca30fc10" /\ Cell_319a1e59
    \/ last = "319a1e59" /\ Cell_182d9172
    \/ last = "182d9172" /\ Cell_2edd684e
    \/ last = "2edd684e" /\ Cell_40ab8100
    \/ last = "40ab8100" /\ Cell_d7f33eef
    \/ last = "d7f33eef" /\ Cell_f1739bf0
    \/ last = "f1739bf0" /\ Cell_022fbba5
    \/ last = "022fbba5" /\ Cell_5305a21f
    \/ last = "5305a21f" /\ Cell_fbb7b827
    \/ last = "fbb7b827" /\ Cell_91b2f303
    \/ last = "91b2f303" /\ Cell_1c4c0066
    \/ last = "1c4c0066" /\ Cell_d12a5987

SpecRunAll == Init /\ [][NextRunAll]_vars

(***************************************************************************)
(* SpecGroups: the group normalization cell with its literal num_groups    *)
(* set to each divisor of the channel count, run (and re-run, up to        *)
(* MaxRegroup times) after the cells that define what it reads.            *)
(***************************************************************************)
EmbeddingDim == 4
MaxRegroup == 2

GroupCounts == {G \in 1..EmbeddingDim : EmbeddingDim % G = 0}

NextGroups ==
    \/ last = "none" /\ Cell_580dd904
    \/ last = "580dd904" /\ Cell_5580a32d
    \/ /\ last \in {"5580a32d", "319a1e59"}
       /\ runs < 2 + MaxRegroup
       /\ \E G \in GroupCounts : Finish("319a1e59", Run_319a1e59(ns, G), 0)

SpecGroups == Init /\ [][NextGroups]_vars

(***************************************************************************)
(* Properties                                                              *)
(***************************************************************************)
\* cell c has just run to its end
After(c) == last = c /\ err = "ok"

\* this step is a run of cell c
Ran(c) == last' = c /\ runs' = runs + 1

\* two numbers within tol of each other (a NaN or an Inf is near nothing)
Near(a, b, tol) == IsFinite(a) /\ IsFinite(b) /\ Abs(a - b) <= tol

\* tolerances, as fractions of 1.0: a mean, a weight or an output within
\* 0.01, a variance or a squared norm within 0.005
MeanTol == Scale \div 100
VarTol == ScaleSq \div 200

GroupMean(x, G) == DivN(SumOver(x.val, G), Cardinality(G))

\* the biased (divide-by-N) variance of x over G, in units of 1 / Scale^2
GroupVar(x, G) ==
    LET m == GroupMean(x, G)
        sq == [j \in G |-> MulSq(Sub(x.val[j], m), Sub(x.val[j], m))]
    IN  DivN(SumOver(sq, G), Cardinality(G))

\* (x - m) / sqrt(v + eps) for the element at idx, m and v taken over G
Normalized(x, idx, G) ==
    Div(Sub(x.val[idx], GroupMean(x, G)), Sqrt(Add(GroupVar(x, G), EpsSq)))

\* C1: each hand-written variant returns a tensor of its input's shape whose
\* element at idx is (x - m) / sqrt(v + eps), m and v being the mean and the
\* biased variance over the elements sharing idx's non-reduced indices: the
\* channel for batch norm, (sample, position) for layer norm, (sample,
\* channel) for instance norm.
C1_Formula ==
    /\ After("dcda4080") =>
         /\ ns.our_BN.shape = ns.data.shape
         /\ \A idx \in Indices(ns.data.shape) :
              ns.our_BN.val[idx] =
                Normalized(ns.data, idx,
                           {j \in Indices(ns.data.shape) : j[2] = idx[2]})
    /\ After("5580a32d") =>
         /\ ns.layerNorm_output.shape = ns.input_data.shape
         /\ \A idx \in Indices(ns.input_data.shape) :
              ns.layerNorm_output.val[idx] =
                Normalized(ns.input_data, idx,
                           {j \in Indices(ns.input_data.shape) :
                              j[1] = idx[1] /\ j[2] = idx[2]})
    /\ After("ca30fc10") =>
         /\ ns.instance_normalization_math.shape = ns.input_data.shape
         /\ \A idx \in Indices(ns.input_data.shape) :
              ns.instance_normalization_math.val[idx] =
                Normalized(ns.input_data, idx,
                           {j \in Indices(ns.input_data.shape) :
                              j[1] = idx[1] /\ j[3] = idx[3]})

HasNonZero(t) == \E idx \in DOMAIN t.val : t.val[idx] # 0

C1_Witness ==
    /\ After("ca30fc10")
    /\ Defined(ns, {"our_BN", "layerNorm_output"})
    /\ HasNonZero(ns.our_BN)
    /\ HasNonZero(ns.layerNorm_output)
    /\ HasNonZero(ns.instance_normalization_math)

\* the groups each variant normalizes over, as sets of indices
BNGroups(shape) ==
    {{j \in Indices(shape) : j[2] = c} : c \in 0..(shape[2] - 1)}

LNGroups(shape) ==
    {{j \in Indices(shape) : j[1] = p[1] /\ j[2] = p[2]} :
       p \in (0..(shape[1] - 1)) \X (0..(shape[2] - 1))}

INGroups(shape) ==
    {{j \in Indices(shape) : j[1] = p[1] /\ j[3] = p[2]} :
       p \in (0..(shape[1] - 1)) \X (0..(shape[3] - 1))}

\* one group per sample and per chunk of `size` channels, as the cell splits
GNGroups(shape, size) ==
    {{j \in Indices(shape) : j[1] = p[1] /\ j[3] \div size = p[2]} :
       p \in (0..(shape[1] - 1)) \X (0..((shape[3] - 1) \div size))}

IsConstantOn(x, G) == \A i, j \in G : x.val[i] = x.val[j]

ZeroMeanUnitVar(y, Gs) ==
    \A G \in Gs :
      /\ Near(GroupMean(y, G), 0, MeanTol)
      /\ Near(GroupVar(y, G), ScaleSq, VarTol)

\* C4 as stated: over every group the output has mean 0 and variance 1,
\* groups of equal elements included.
C4_Original ==
    /\ After("dcda4080") => ZeroMeanUnitVar(ns.our_BN, BNGroups(ns.data.shape))
    /\ After("5580a32d") =>
         ZeroMeanUnitVar(ns.layerNorm_output, LNGroups(ns.input_data.shape))
    /\ After("ca30fc10") =>
         ZeroMeanUnitVar(ns.instance_normalization_math,
                         INGroups(ns.input_data.shape))
    /\ After("319a1e59") =>
         ZeroMeanUnitVar(ns.group_norm_output,
                         GNGroups(ns.input_data.shape, ns.num_groups))

Standardized(x, y, Gs) ==
    \A G \in Gs :
      /\ Near(GroupMean(y, G), 0, MeanTol)
      /\ GroupVar(y, G) <= ScaleSq + VarTol
      /\ GroupVar(x, G) >= ScaleSq => Near(GroupVar(y, G), ScaleSq, VarTol)
      /\ IsConstantOn(x, G) =>
           /\ \A j \in G : y.val[j] = 0
           /\ GroupVar(y, G) = 0

\* C4, amended: over every group the output has mean 0 and a variance of
\* v / (v + eps), v being the input's variance over the group: at most 1,
\* 1 within tolerance when v is at least 1, and 0 (every output element 0)
\* when the group's elements are all equal.
C4_Amended ==
    /\ After("dcda4080") =>
         Standardized(ns.data, ns.our_BN, BNGroups(ns.data.shape))
    /\ After("5580a32d") =>
         Standardized(ns.input_data, ns.layerNorm_output,
                      LNGroups(ns.input_data.shape))
    /\ After("ca30fc10") =>
         Standardized(ns.input_data, ns.instance_normalization_math,
                      INGroups(ns.input_data.shape))
    /\ After("319a1e59") =>
         Standardized(ns.input_data, ns.group_norm_output,
                      GNGroups(ns.input_data.shape, ns.num_groups))

C4_Witness ==
    /\ After("5580a32d")
    /\ \E G \in LNGroups(ns.input_data.shape) : IsConstantOn(ns.input_data, G)
    /\ \E G \in LNGroups(ns.input_data.shape) :
         /\ GroupVar(ns.input_data, G) >= ScaleSq
         /\ GroupVar(ns.layerNorm_output, G) > 0

\* C8 as stated: for data of shape (2, 3, 4, 4) reduced over (0, 2, 3) the
\* mean and the variance have shape (3,) and the output shape (2, 3, 4, 4).
C8_Original ==
    (After("dcda4080") /\ ns.data.shape = <<2, 3, 4, 4>>) =>
      /\ ns.channel_mean.shape = <<3>>
      /\ ns.channel_var.shape = <<3>>
      /\ ns.our_BN.shape = <<2, 3, 4, 4>>

\* C8, amended: the reduced axes are kept (keepdim=True), so the mean and
\* the variance have shape (1, 3, 1, 1), one entry per channel; the output
\* has shape (2, 3, 4, 4).
C8_Amended ==
    (After("dcda4080") /\ ns.data.shape = <<2, 3, 4, 4>>) =>
      /\ ns.channel_mean.shape = <<1, 3, 1, 1>>
      /\ ns.channel_var.shape = <<1, 3, 1, 1>>
      /\ Cardinality(DOMAIN ns.channel_mean.val) = 3
      /\ Cardinality(DOMAIN ns.channel_var.val) = 3
      /\ ns.our_BN.shape = <<2, 3, 4, 4>>

C8_Witness ==
    /\ After("dcda4080")
    /\ ns.data.shape = <<2, 3, 4, 4>>
    /\ \E i, j \in DOMAIN ns.channel_mean.val :
         ns.channel_mean.val[i] # ns.channel_mean.val[j]

Rows(w) == 0..(w.shape[1] - 1)

Cols(w) == 0..(w.shape[2] - 1)

RowIsZero(w, r) == \A c \in Cols(w) : w.val[<<r, c>>] = 0

\* the sum of the squares of row r, in units of 1 / Scale^2
SqRowSum(w, r) ==
    SumOver([c \in Cols(w) |-> MulSq(w.val[<<r, c>>], w.val[<<r, c>>])], Cols(w))

WeightTol == Scale \div 500

NearAll(a, b, tol) ==
    /\ a.shape = b.shape
    /\ \A idx \in DOMAIN a.val : Near(a.val[idx], b.val[idx], tol)

\* C2 as stated: magnitude * direction equals, element by element, the
\* weight matrix that was decomposed, for every matrix.
C2_Original ==
    /\ After("d7f33eef") => NearAll(out.v, ns.linear.weight, WeightTol)
    /\ After("91b2f303") => NearAll(out.v, ns.wn_linear.weight_v, WeightTol)

\* the recombination of a decomposition of w: equal to w on the rows of w0
\* that are not all zero, NaN on the rows of w0 that are
Recombines(rec, w, w0) ==
    /\ rec.shape = w.shape
    /\ \A r \in Rows(w) :
         IF RowIsZero(w0, r)
         THEN \A c \in Cols(w) : rec.val[<<r, c>>] = NaN
         ELSE \A c \in Cols(w) : Near(rec.val[<<r, c>>], w.val[<<r, c>>], WeightTol)

\* C2, amended: the magnitude of row i is the row's L2 norm, and
\* magnitude * direction equals the weight on every row whose norm is not
\* zero; for a row of zeros the division 0 / 0 makes the row NaN.
C2_Amended ==
    /\ After("40ab8100") =>
         \A r \in Rows(ns.linear.weight) :
           ns.weight_magnitude.val[<<r, 0>>] = Sqrt(SqRowSum(ns.linear.weight, r))
    /\ After("d7f33eef") =>
         Recombines(out.v, ns.linear.weight, ns.linear.weight_v)
    /\ After("91b2f303") =>
         /\ \A r \in Rows(ns.wn_linear.weight_v) :
              ns.weight_v_norm.val[<<r, 0>>] =
                Sqrt(SqRowSum(ns.wn_linear.weight_v, r))
         /\ Recombines(out.v, ns.wn_linear.weight_v, ns.wn_linear.weight_v)

C2_Witness ==
    /\ After("91b2f303")
    /\ \E r \in Rows(ns.wn_linear.weight_v) : RowIsZero(ns.wn_linear.weight_v, r)
    /\ \E r \in Rows(ns.wn_linear.weight_v) :
         /\ ~RowIsZero(ns.wn_linear.weight_v, r)
         /\ \E c \in Cols(out.v) : out.v.val[<<r, c>>] \notin {0, NaN}

\* C3 as stated: every row of direction has L2 norm 1, the rows of an
\* all-zero weight row included.
C3_Original ==
    /\ After("182d9172") =>
         \A r \in Rows(ns.direction) :
           Near(SqRowSum(ns.direction, r), ScaleSq, VarTol)
    /\ After("40ab8100") =>
         \A r \in Rows(ns.weight_direction) :
           Near(out.v.val[<<r>>], ScaleSq, VarTol)

\* the rows of direction d of a weight w0: of norm 1 where the row of w0 is
\* not all zero, NaN where it is
UnitRows(d, w0) ==
    \A r \in Rows(d) :
      IF RowIsZero(w0, r)
      THEN \A c \in Cols(d) : d.val[<<r, c>>] = NaN
      ELSE Near(SqRowSum(d, r), ScaleSq, VarTol)

\* C3, amended: a row of direction has L2 norm 1 when the weight row is not
\* all zero; the direction of an all-zero row is NaN, and so is its norm.
C3_Amended ==
    /\ After("182d9172") => UnitRows(ns.direction, ns.linear.weight_v)
    /\ After("40ab8100") =>
         /\ UnitRows(ns.weight_direction, ns.linear.weight_v)
         /\ \A r \in Rows(ns.weight_direction) :
              out.v.val[<<r>>] = (IF RowIsZero(ns.linear.weight_v, r) THEN NaN
                                  ELSE SqRowSum(ns.weight_direction, r))

C3_Witness ==
    /\ After("40ab8100")
    /\ \E r \in Rows(ns.weight_direction) : RowIsZero(ns.linear.weight_v, r)
    /\ \E r \in Rows(ns.weight_direction) :
         /\ ~RowIsZero(ns.linear.weight_v, r)
         /\ IsFinite(out.v.val[<<r>>])

\* C5 as stated: the linear output computed with magnitude * direction
\* equals the output of the layer itself, for every weight.
C5_Original ==
    /\ After("182d9172") =>
         NearAll(ns.wn_linear_output, ns.pytorch_wn_linear_output, MeanTol)
    /\ After("5305a21f") =>
         NearAll(out.v, LinearForward(ns.wn_linear, ns.data), MeanTol)

\* x @ w.T with the weight the layer had before it was wrapped
PlainOutput(x, module) == MatMul(x, Transpose(module.weight_v, 0, 1))

\* the outputs y of the rebuilt weight and z of the layer: equal, and equal
\* to the plain output, on the units whose weight row is not all zero; NaN
\* on the units whose weight row is
SameOutput(y, z, x, module) ==
    /\ y.shape = z.shape
    /\ \A idx \in DOMAIN y.val :
         IF RowIsZero(module.weight_v, idx[Len(idx)])
         THEN y.val[idx] = NaN /\ z.val[idx] = NaN
         ELSE /\ Near(y.val[idx], z.val[idx], MeanTol)
              /\ Near(y.val[idx], PlainOutput(x, module).val[idx], MeanTol)

\* C5, amended: the output computed with magnitude * direction equals the
\* layer's output, and the output with the weight before wrapping, on every
\* output unit whose weight row is not all zero; on a unit whose weight row
\* is all zero both are NaN.
C5_Amended ==
    /\ After("182d9172") =>
         SameOutput(ns.wn_linear_output, ns.pytorch_wn_linear_output,
                    ns.input_data, ns.pytorch_wn_linear)
    /\ After("5305a21f") =>
         SameOutput(out.v, LinearForward(ns.wn_linear, ns.data),
                    ns.data, ns.wn_linear)

C5_Witness ==
    /\ After("182d9172")
    /\ \E r \in Rows(ns.linear.weight_v) : RowIsZero(ns.linear.weight_v, r)
    /\ \E idx \in DOMAIN ns.wn_linear_output.val :
         /\ IsFinite(ns.wn_linear_output.val[idx])
         /\ ns.wn_linear_output.val[idx] # 0

\* the cells that normalize a tensor of the namespace by the formula, and the
\* name of the tensor each normalizes
FormulaInput ==
    [c \in {"dcda4080", "ca30fc10", "319a1e59"} |->
       IF c = "dcda4080" THEN "data" ELSE "input_data"]

\* C6: a formula cell leaves the tensor it normalizes as it was and draws
\* nothing from the generator, and run again right after itself, on the
\* same input, it leaves the same outputs: the namespace and what it shows
\* are those of the first run.
C6_Pure ==
    [][\A c \in DOMAIN FormulaInput :
         Ran(c) =>
           /\ rng' = rng
           /\ FormulaInput[c] \in DOMAIN ns =>
                /\ FormulaInput[c] \in DOMAIN ns'
                /\ ns'[FormulaInput[c]] = ns[FormulaInput[c]]
           /\ After(c) => (ns' = ns /\ out' = out /\ err' = "ok")]_vars

C6_Witness ==
    /\ After("dcda4080")
    /\ runs >= 2
    /\ HasNonZero(ns.our_BN)
    /\ out = [kind |-> "bool", v |-> TRUE]

CellIds ==
    {"580dd904", "dcda4080", "5580a32d", "f0321f82", "ca30fc10", "319a1e59",
     "182d9172", "2edd684e", "40ab8100", "d7f33eef", "f1739bf0", "022fbba5",
     "5305a21f", "fbb7b827", "91b2f303", "1c4c0066", "d12a5987"}

\* C9 as stated: a cell run in a fresh kernel after only the import cell
\* finds every name it reads.
C9_Original ==
    [][\A c \in CellIds :
         (last = "580dd904" /\ runs = 1 /\ err = "ok" /\ Ran(c)) =>
           err' # "NameError"]_vars

\* the names each cell reads that it does not define itself
Reads(c) ==
    CASE c = "580dd904" -> {}
      [] c = "dcda4080" -> {"torch", "data", "output_torch_BN"}
      [] c \in {"5580a32d", "f0321f82", "2edd684e"} -> {"torch", "nn"}
      [] c \in {"ca30fc10", "319a1e59", "182d9172"} ->
           {"torch", "nn", "embedding_dim", "input_data"}
      [] c = "40ab8100" -> {"torch", "linear"}
      [] c = "d7f33eef" -> {"weight_direction", "weight_magnitude"}
      [] c = "f1739bf0" -> {"linear", "data"}
      [] c = "022fbba5" -> {"wn_linear", "data"}
      [] c = "5305a21f" -> {"data", "weight_direction", "weight_magnitude"}
      [] c \in {"fbb7b827", "d12a5987"} -> {"wn_linear"}
      [] c = "91b2f303" -> {"torch", "wn_linear"}
      [] c = "1c4c0066" -> {"weight_v_norm"}

\* C9, amended: the kernel's namespace persists across cells.  Only the
\* import cell reads no name; every other cell reads names that other cells
\* define, and ends with a NameError exactly when one of them is not defined.
C9_Amended ==
    [][\A c \in CellIds :
         Ran(c) =>
           /\ (err' = "NameError") = ~(Reads(c) \subseteq DOMAIN ns)
           /\ c # "580dd904" => Reads(c) # {}]_vars

C9_Witness ==
    /\ After("ca30fc10")
    /\ runs >= 3
    /\ Defined(ns, {"input_data", "embedding_dim", "instance_normalization_math"})

\* C10: for every num_groups dividing the channel count, the cell splits the
\* channels into num_groups groups of C / num_groups channels each, and its
\* output equals that of GroupNorm(num_groups, C).
C10_Partition ==
    After("319a1e59") =>
      /\ Len(ns.grouped_input) = ns.num_groups
      /\ \A k \in 1..Len(ns.grouped_input) :
           ns.grouped_input[k].shape[3] = ns.embedding_dim \div ns.num_groups
      /\ NearAll(ns.group_norm_output, ns.pytorch_group_norm_output, MeanTol)

====
